---- MODULE Spec2Model ----
(***************************************************************************)
(* Model of the playblast add-on: the metadata provider                    *)
(* (playblast/metadata.py), the burn-in text substitution                  *)
(* (playblast/text.py, playblast/handlers.py) and the export operator      *)
(* (playblast/operators.py, mirrored by anim_reviewer/operators.py).       *)
(*                                                                         *)
(* Text is a sequence of one-character strings, so that formatting         *)
(* (str(), format_map) is modelled by what it produces.                    *)
(***************************************************************************)
EXTENDS Integers, Sequences, FiniteSets, TLC

VARIABLES
    scene,              \* bpy.context.scene: frame state, render settings, camera
    space,              \* the 3D viewport: context.space_data and context.region_data
    props,              \* scene.playblast: override / file / burn_in property groups
    metadata_dict,      \* the custom property scene.playblast["metadata"]
    frame_change_post,  \* bpy.app.handlers.frame_change_post
    now,                \* wall clock read by datetime.now(), in seconds
    pc,                 \* position inside PLAYBLAST_OT_run.execute
    saved,              \* locals stored by render_properties_override
    self,               \* fields of the running operator instance
    oglrender,          \* progress of bpy.ops.render.opengl(animation=True)
    ffmpeg,             \* whether shutil.which("ffmpeg") finds a binary
    ret,                \* value returned by the last get_metadata call
    texts,              \* outcome of the last burn-in layout call
    preview,            \* anim_reviewer.handlers: preview_handler and what Blender holds
    timecodes           \* outcome of the last frame_to_timecode calls of one frame

vars == <<scene, space, props, metadata_dict, frame_change_post, now, pc, saved,
          self, oglrender, ffmpeg, ret, texts, preview, timecodes>>

-----------------------------------------------------------------------------
(* Bounds of the model *)

MaxRes == 6         \* small base resolutions 1..MaxRes (1920 and 1080 are added)
MaxFrame == 3       \* frame numbers range over 1..MaxFrame
MaxStep == 2        \* scene.frame_step ranges over 1..MaxStep
MaxClock == 2       \* the wall clock advances at most to MaxClock seconds

(* Program constants *)

ScaleMin == 1       \* OverrideProperties.scale min
ScaleMax == 100     \* OverrideProperties.scale max

Positions == <<"top_left", "top_center", "top_right",
               "bottom_left", "bottom_center", "bottom_right">>

PositionSet == {Positions[i] : i \in 1..Len(Positions)}

-----------------------------------------------------------------------------
(* Text helpers: str() of an integer, zero padding, emptiness after strip *)

Digit(d) ==
    CASE d = 0 -> "0" [] d = 1 -> "1" [] d = 2 -> "2" [] d = 3 -> "3"
      [] d = 4 -> "4" [] d = 5 -> "5" [] d = 6 -> "6" [] d = 7 -> "7"
      [] d = 8 -> "8" [] d = 9 -> "9"

RECURSIVE IntToStr(_)
IntToStr(n) ==
    IF n < 10 THEN <<Digit(n)>> ELSE IntToStr(n \div 10) \o <<Digit(n % 10)>>

RECURSIVE ZeroPad(_, _)
ZeroPad(s, width) == IF Len(s) >= width THEN s ELSE ZeroPad(<<"0">> \o s, width)

IsBlank(s) == \A i \in 1..Len(s) : s[i] = " "

-----------------------------------------------------------------------------
(* playblast/properties.py: read-only string properties of FileProperties *)

get_version_str_always(file) == <<"v">> \o ZeroPad(IntToStr(file.version), 3)

get_version_str(file) ==
    IF ~file.use_version THEN <<>> ELSE <<"v">> \o ZeroPad(IntToStr(file.version), 3)

\* os.path.basename(props.file.full_path): the directory part is dropped
full_path_basename(file) ==
    file.name
      \o (IF file.use_version THEN <<".">> \o get_version_str(file) ELSE <<>>)
      \o file.extension

-----------------------------------------------------------------------------
(* playblast/metadata.py *)

\* int(render.resolution * scale / 100) for a positive resolution and scale
ScaledRes(res, scale) == (res * scale) \div 100

MakeEvenNoFix(res) == res

MakeEvenDown(res) == res - (res % 2)

\* res += res % 2
MakeEven(res) == res + (res % 2)

\* datetime.now().isoformat(sep=" ", timespec="seconds")
DateTimeStr(t) == IntToStr(t)

\* f"{camera.data.lens:.2f}" for a lens given in whole millimetres
FocalStr(lens) == IntToStr(lens) \o <<".", "0", "0">>

MetaDataFields ==
    {"datetime", "width", "height", "file_name", "file_version", "file_ext",
     "file_full_name", "frame_current", "frame_start", "frame_end",
     "frame_rate", "camera_name", "camera_focal"}

IntFields ==
    {"width", "height", "frame_current", "frame_start", "frame_end", "frame_rate"}

camera_is_set(camera) == camera.type # "NONE"

\* camera and camera.type == "CAMERA"
camera_is_camera(camera) == camera.type # "NONE" /\ camera.type = "CAMERA"

get_metadata(sc, pr, clock, is_rendering) ==
    LET render == sc.render
        res_x == IF is_rendering THEN render.resolution_x
                 ELSE MakeEven(ScaledRes(render.resolution_x, pr.override.scale))
        res_y == IF is_rendering THEN render.resolution_y
                 ELSE MakeEven(ScaledRes(render.resolution_y, pr.override.scale))
        frame_start == IF pr.override.use_frame_range
                       THEN pr.override.frame_start ELSE sc.frame_start
        frame_end == IF pr.override.use_frame_range
                     THEN pr.override.frame_end ELSE sc.frame_end
        camera == sc.camera
        is_camera == camera_is_camera(camera)
    IN  [datetime       |-> DateTimeStr(clock),
         width          |-> res_x,
         height         |-> res_y,
         file_name      |-> pr.file.name,
         file_version   |-> get_version_str(pr.file),
         file_ext       |-> pr.file.extension,
         file_full_name |-> full_path_basename(pr.file),
         frame_current  |-> sc.frame_current,
         frame_start    |-> frame_start,
         frame_end      |-> frame_end,
         frame_rate     |-> render.fps,
         camera_name    |-> IF is_camera THEN camera.name ELSE <<>>,
         camera_focal   |-> IF is_camera THEN FocalStr(camera.lens) ELSE <<>>]

-----------------------------------------------------------------------------
(* Values the state is drawn from *)

ResValues == (1..MaxRes) \cup {1080, 1920}

Ranges == {r \in (1..MaxFrame) \X (1..MaxFrame) : r[1] <= r[2]}

NoCamera == [type |-> "NONE", name |-> <<>>, lens |-> 0]

Cameras ==
    {NoCamera,
     [type |-> "CAMERA", name |-> <<"C", "a", "m">>, lens |-> 50],
     [type |-> "MESH", name |-> <<"C", "u", "b", "e">>, lens |-> 0]}

\* a template is a sequence of tokens: literal text or a {field} replacement
Lit(s) == [kind |-> "lit", s |-> s]
Fld(name) == [kind |-> "fld", s |-> <<name>>]

NoTemplates == [p \in PositionSet |-> <<>>]

\* BurnInProperties defaults, with the literal text of each template shortened
DefaultTemplates ==
    [top_left      |-> <<Lit(<<"F", " ">>), Fld("file_name"), Lit(<<" ">>), Fld("file_version")>>,
     top_center    |-> <<>>,
     top_right     |-> <<Lit(<<"D", " ">>), Fld("datetime")>>,
     bottom_left   |-> <<Fld("width"), Lit(<<"x">>), Fld("height")>>,
     bottom_center |-> <<Fld("camera_name"), Lit(<<" ">>), Fld("camera_focal")>>,
     bottom_right  |-> <<Fld("frame_current"), Lit(<<" ">>), Fld("frame_start"),
                         Lit(<<"-">>), Fld("frame_end")>>]

DefaultFile ==
    [name |-> <<"p", "b">>, use_version |-> TRUE, version |-> 1,
     extension |-> <<".", "m", "p", "4">>]

\* FileProperties with and without versioning
Files == {DefaultFile, [DefaultFile EXCEPT !.use_version = FALSE]}

MakeScene(res_x, res_y, cur, range, use_prv, prv, step, cam) ==
    [render |-> [resolution_x |-> res_x, resolution_y |-> res_y,
                 resolution_percentage |-> 50, fps |-> 24,
                 filepath |-> "//render/",
                 use_file_extension |-> FALSE, use_render_cache |-> TRUE,
                 image_settings |-> [file_format |-> "OPEN_EXR", color_mode |-> "RGBA",
                                     color_depth |-> "16", compression |-> 90]],
     frame_current |-> cur,
     frame_start |-> range[1],
     frame_end |-> range[2],
     use_preview_range |-> use_prv,
     frame_preview_start |-> prv[1],
     frame_preview_end |-> prv[2],
     frame_step |-> step,
     camera |-> cam]

\* BurnInProperties: the six templates and the settings the layout reads
MakeBurnIn(templates, font_size, margin) ==
    [enable |-> TRUE, preview |-> TRUE, font_size |-> font_size, margin |-> margin,
     top_left |-> templates.top_left, top_center |-> templates.top_center,
     top_right |-> templates.top_right, bottom_left |-> templates.bottom_left,
     bottom_center |-> templates.bottom_center,
     bottom_right |-> templates.bottom_right]

MakeProps(scale, use_range, range, file, templates) ==
    [override |-> [scale |-> scale, use_frame_range |-> use_range,
                   frame_start |-> range[1], frame_end |-> range[2],
                   show_overlays |-> FALSE, use_viewport_shading |-> TRUE,
                   viewport_shading |-> "MATERIAL"],
     file |-> file,
     burn_in |-> MakeBurnIn(templates, 40, 10)]

\* a 3D viewport looking through the camera; frame is the camera frame
\* rectangle in region pixels (x, y of its bottom-left corner)
MakeSpace(perspective, frame) ==
    [area_type |-> "VIEW_3D", view_perspective |-> perspective, frame |-> frame,
     shading_type |-> "SOLID", show_xray |-> TRUE, show_overlays |-> TRUE]

DefaultSpace == MakeSpace("CAMERA", [x |-> 10, y |-> 20, width |-> 192, height |-> 108])

NoDict == [exists |-> FALSE, items |-> <<>>]
NoSaved == [entered |-> FALSE]

NoHeader == [res_x |-> 0, res_y |-> 0, font_size |-> 0, margin |-> 0]

\* the operator instance before execute runs; consumed and failed record what
\* build_subtitles read and where format_map failed, invoked_view the
\* perspective of the viewport when execute was called (kept by the model
\* only, the operator has no such field)
NoSelf ==
    [result |-> "NONE", exc |-> "none", reports |-> <<>>, temp_dir |-> FALSE,
     invoked_view |-> "NONE",
     frame_start |-> 0, frame_end |-> 0, frame |-> 0, header |-> NoHeader,
     dialogues |-> <<>>, consumed |-> <<>>, failed |-> {},
     sub_written |-> FALSE, audio_ran |-> FALSE, video_ran |-> FALSE]

\* stamps records the clock readings of the snapshots collected so far
NoRender == [running |-> FALSE, nfra |-> 0, efra |-> 0, stamps |-> {}]
NoRet == [called |-> FALSE]
NoTexts == [called |-> FALSE]

\* everything outside the scene and the add-on properties, as after register()
\* anim_reviewer is not enabled: nothing registered with Blender
NoCall == [by |-> "none", mode |-> "none", raised |-> "none", handlers_before |-> 0]

NoPreview ==
    [preview_handler |-> "None", draw_handlers |-> 0, load_post |-> 0, timers |-> 0,
     has_anim_reviewer |-> FALSE, enable |-> FALSE, preview |-> TRUE,
     last |-> NoCall, calls |-> 0]

NoTimecodes == [called |-> FALSE]

IdleButViewport ==
    /\ metadata_dict = NoDict
    /\ frame_change_post = {}
    /\ now = 0
    /\ pc = "idle"
    /\ saved = NoSaved
    /\ self = NoSelf
    /\ oglrender = NoRender
    /\ ffmpeg = TRUE
    /\ ret = NoRet
    /\ texts = NoTexts
    /\ preview = NoPreview
    /\ timecodes = NoTimecodes

Idle ==
    /\ space = DefaultSpace
    /\ IdleButViewport

-----------------------------------------------------------------------------
(* SpecMeta: get_metadata applied to every drawn scene state *)

InitMeta ==
    /\ Idle
    /\ \/ \E res_x \in ResValues, res_y \in ResValues, scale \in ScaleMin..ScaleMax :
             /\ scene = MakeScene(res_x, res_y, 1, <<1, MaxFrame>>, FALSE,
                                  <<1, MaxFrame>>, 1, NoCamera)
             /\ props = MakeProps(scale, FALSE, <<1, MaxFrame>>, DefaultFile,
                                  DefaultTemplates)
       \/ \E cur \in 1..MaxFrame, range \in Ranges, prv \in Ranges, ovr \in Ranges,
             use_prv \in BOOLEAN, use_range \in BOOLEAN, cam \in Cameras,
             file \in Files :
             /\ scene = MakeScene(1920, 1080, cur, range, use_prv, prv, 1, cam)
             /\ props = MakeProps(50, use_range, ovr, file, DefaultTemplates)

\* the function storing the even, scaled size back into the render settings
get_metadata_context_writes_size(sc, pr, is_rendering) ==
    IF is_rendering
    THEN [scene |-> sc, props |-> pr]
    ELSE [scene |-> [sc EXCEPT
                       !.render.resolution_x =
                           MakeEven(ScaledRes(sc.render.resolution_x, pr.override.scale)),
                       !.render.resolution_y =
                           MakeEven(ScaledRes(sc.render.resolution_y, pr.override.scale))],
          props |-> pr]

\* lines 44-99: the scene (render settings, camera included) and the add-on
\* properties as get_metadata leaves them; the function has no assignment to
\* either and the property getters it calls (version_str, full_path) have none
get_metadata_context(sc, pr, is_rendering) == [scene |-> sc, props |-> pr]

\* a caller evaluates get_metadata(context, is_rendering)
CallGetMetadata(is_rendering) ==
    /\ ~ret.called
    /\ ret' = [called |-> TRUE, is_rendering |-> is_rendering,
               value |-> get_metadata(scene, props, now, is_rendering)]
    /\ scene' = get_metadata_context(scene, props, is_rendering).scene
    /\ props' = get_metadata_context(scene, props, is_rendering).props
    /\ UNCHANGED <<space, metadata_dict, frame_change_post, now, pc,
                   saved, self, oglrender, ffmpeg, texts, preview, timecodes>>

NextMeta == \E is_rendering \in BOOLEAN : CallGetMetadata(is_rendering)

SpecMeta == InitMeta /\ [][NextMeta]_vars

-----------------------------------------------------------------------------
(* Claims about get_metadata *)

IsEven(n) == n % 2 = 0

\* C1: for every base resolution >= 1 and every scale in 1..100, get_metadata
\* called with is_rendering=False returns an even width and an even height.
C1_EvenResolution ==
    (ret.called /\ ~ret.is_rendering) =>
        /\ ret.value.width \in Nat /\ IsEven(ret.value.width)
        /\ ret.value.height \in Nat /\ IsEven(ret.value.height)

\* the truncated product is odd, so the correction has acted
C1_Witness ==
    /\ ret.called /\ ~ret.is_rendering
    /\ ~IsEven(ScaledRes(scene.render.resolution_x, props.override.scale))
    /\ ~IsEven(ScaledRes(scene.render.resolution_y, props.override.scale))

\* n is the least even integer with n >= num / 100
LeastEvenAtLeast(n, num) ==
    /\ IsEven(n)
    /\ n * 100 >= num
    /\ (n - 2) * 100 < num

\* C2 as stated: width and height are the least even integers that are
\* >= resolution * scale / 100 (the exact quotient); 1920x1080 at 33 gives 634x358.
C2_Original ==
    (ret.called /\ ~ret.is_rendering) =>
        /\ LeastEvenAtLeast(ret.value.width,
                            scene.render.resolution_x * props.override.scale)
        /\ LeastEvenAtLeast(ret.value.height,
                            scene.render.resolution_y * props.override.scale)
        /\ (scene.render.resolution_x = 1920 /\ scene.render.resolution_y = 1080
              /\ props.override.scale = 33)
             => (ret.value.width = 634 /\ ret.value.height = 358)

\* C2 amended: the quotient is truncated first, then raised to the next even
\* integer only when the truncated value is odd: width and height are the least
\* even integers >= floor(resolution * scale / 100); 1920x1080 at 33 gives 634x356.
C2_TruncateThenEven ==
    (ret.called /\ ~ret.is_rendering) =>
        LET fx == (scene.render.resolution_x * props.override.scale) \div 100
            fy == (scene.render.resolution_y * props.override.scale) \div 100
        IN  /\ IsEven(ret.value.width) /\ fx <= ret.value.width /\ ret.value.width <= fx + 1
            /\ IsEven(ret.value.height) /\ fy <= ret.value.height /\ ret.value.height <= fy + 1
            /\ (scene.render.resolution_x = 1920 /\ scene.render.resolution_y = 1080
                  /\ props.override.scale = 33)
                 => (ret.value.width = 634 /\ ret.value.height = 356)

\* 33% of 1920x1080: 633.6 -> 633 -> 634 and 356.4 -> 356 -> 356
C2_Witness ==
    /\ ret.called /\ ~ret.is_rendering
    /\ scene.render.resolution_x = 1920 /\ scene.render.resolution_y = 1080
    /\ props.override.scale = 33
    /\ ret.value.width = 634 /\ ret.value.height = 356

\* C4: frame_start / frame_end of a snapshot are the override range when
\* override.use_frame_range is set, else the preview range when
\* scene.use_preview_range is set, else the scene's full frame range.
C4_FrameRangePriority ==
    ret.called =>
        LET expected ==
                IF props.override.use_frame_range
                THEN <<props.override.frame_start, props.override.frame_end>>
                ELSE IF scene.use_preview_range
                     THEN <<scene.frame_preview_start, scene.frame_preview_end>>
                     ELSE <<scene.frame_start, scene.frame_end>>
        IN  <<ret.value.frame_start, ret.value.frame_end>> = expected

-----------------------------------------------------------------------------
(* Template substitution: str.format_map *)

FieldText(md, name) == IF name \in IntFields THEN IntToStr(md[name]) ELSE md[name]

ReturnedPlainDict == "dict"

\* get_metadata ends with `return defaultdict(str, metadata)`
ReturnedMapping == "defaultdict"

\* a snapshot read back from scene.playblast["metadata"] is an ID property
\* group: indexing it with a key it does not hold raises KeyError
StoredMapping == "IDPropertyGroup"

\* text_template.format_map(mapping): ok is FALSE when the call raises
RECURSIVE FormatMap(_, _, _)
FormatMap(template, md, mapping) ==
    IF template = <<>> THEN [ok |-> TRUE, text |-> <<>>]
    ELSE LET tok == Head(template)
             rest == FormatMap(Tail(template), md, mapping)
             missing == tok.kind = "fld" /\ tok.s[1] \notin DOMAIN md
             piece == IF tok.kind = "lit" THEN tok.s
                      ELSE IF missing THEN <<>> ELSE FieldText(md, tok.s[1])
         IN  IF (missing /\ mapping # "defaultdict") \/ ~rest.ok
             THEN [ok |-> FALSE, text |-> <<>>]
             ELSE [ok |-> TRUE, text |-> piece \o rest.text]

TemplateIsEmptyString(template) == template = <<>>

\* not text_template.strip()
TemplateIsBlank(template) ==
    \A i \in 1..Len(template) : template[i].kind = "lit" /\ IsBlank(template[i].s)

-----------------------------------------------------------------------------
(* playblast/text.py *)

\* blf.dimensions(font_id, text) after blf.size(font_id, font_size), for a
\* fixed-pitch font whose glyphs are font_size / 2 wide and font_size high
Dimensions(font_size, text) ==
    [width |-> Len(text) * (font_size \div 2), height |-> font_size]

\* Rect.top_left ... Rect.bottom_right: the anchor point of a rect
RectAnchor(rect, position) ==
    [x |-> CASE position \in {"top_left", "bottom_left"} -> rect.x
             [] position \in {"top_center", "bottom_center"} ->
                    rect.x + (rect.width \div 2)
             [] position \in {"top_right", "bottom_right"} -> rect.x + rect.width,
     y |-> IF position \in {"top_left", "top_center", "top_right"}
           THEN rect.y + rect.height
           ELSE rect.y]

TextRectRightUnshifted(position, res_x, res_y, margin, width, height) ==
    [x |-> CASE position \in {"top_left", "bottom_left"} -> margin
             [] position \in {"top_center", "bottom_center"} ->
                    (res_x \div 2) - (width \div 2)
             [] position \in {"top_right", "bottom_right"} -> res_x - margin,
     y |-> IF position \in {"top_left", "top_center", "top_right"}
           THEN res_y - height - margin
           ELSE margin,
     width |-> width, height |-> height]

\* Text.__init__, lines 88-110: the rect of a text measured width x height
TextRect(position, res_x, res_y, margin, width, height) ==
    [x |-> CASE position \in {"top_left", "bottom_left"} -> margin
             [] position \in {"top_center", "bottom_center"} ->
                    (res_x \div 2) - (width \div 2)
             [] position \in {"top_right", "bottom_right"} -> res_x - width - margin,
     y |-> IF position \in {"top_left", "top_center", "top_right"}
           THEN res_y - height - margin
           ELSE margin,
     width |-> width, height |-> height]

\* Text.__init__: the rect is placed in the full render resolution
Text(text, position, sc, pr) ==
    LET res_x == sc.render.resolution_x
        res_y == sc.render.resolution_y
        font_size == pr.burn_in.font_size
        margin == pr.burn_in.margin
        dim == Dimensions(font_size, text)
    IN  [text |-> text, position |-> position, font_size |-> font_size,
         rect |-> TextRect(position, res_x, res_y, margin, dim.width, dim.height)]

\* the loop of iter_corner_text from the i-th position on: the Text objects
\* yielded, and whether format_map raised out of the generator
RECURSIVE IterFrom(_, _, _, _)
IterFrom(i, sc, pr, md) ==
    IF i > Len(Positions) THEN [raised |-> FALSE, items |-> <<>>]
    ELSE LET position == Positions[i]
             text_template == pr.burn_in[position]
         IN  IF TemplateIsBlank(text_template) THEN IterFrom(i + 1, sc, pr, md)
             ELSE LET f == FormatMap(text_template, md, ReturnedMapping)
                  IN  IF ~f.ok THEN [raised |-> TRUE, items |-> <<>>]
                      ELSE LET rest == IterFrom(i + 1, sc, pr, md)
                           IN  [raised |-> rest.raised,
                                items |-> <<Text(f.text, position, sc, pr)>> \o rest.items]

\* iter_corner_text() called without a metadata argument
iter_corner_text(sc, pr, clock) == IterFrom(1, sc, pr, get_metadata(sc, pr, clock, FALSE))

-----------------------------------------------------------------------------
(* playblast/handlers.py *)

poll(sc, sp) ==
    /\ sp.area_type = "VIEW_3D"
    /\ sp.view_perspective = "CAMERA"
    /\ sc.camera.type # "NONE"

\* the loop over `positions` from the i-th entry on.  x2 and y2 are twice the
\* pixel coordinates handed to blf.position, which keeps the halves exact.
RECURSIVE DrawFrom(_, _, _, _, _, _)
DrawFrom(i, pr, md, frame, font_size, font_margin) ==
    IF i > Len(Positions) THEN [items |-> <<>>, errors |-> <<>>]
    ELSE LET pos == Positions[i]
             rest == DrawFrom(i + 1, pr, md, frame, font_size, font_margin)
             f == FormatMap(pr.burn_in[pos], md, ReturnedMapping)
             full_height == Dimensions(font_size, <<"G", "j">>).height
             word_height == full_height \div 2
             base_height == (full_height - word_height) \div 2
             w == Dimensions(font_size, f.text).width
             left == frame.x
             right == frame.x + frame.width
             top == frame.y + frame.height
             bottom == frame.y
             x2 == CASE pos \in {"top_left", "bottom_left"} -> 2 * (left + font_margin)
                     [] pos \in {"top_center", "bottom_center"} -> (left + right) - w
                     [] pos \in {"top_right", "bottom_right"} ->
                            2 * (right - w - font_margin)
             y2 == IF pos \in {"top_left", "top_center", "top_right"}
                   THEN 2 * (top - full_height - font_margin + base_height)
                   ELSE 2 * (bottom + font_margin + base_height)
         IN  IF ~f.ok
             THEN [items |-> rest.items, errors |-> <<pos>> \o rest.errors]
             ELSE [items |-> <<[position |-> pos, text |-> f.text,
                               x2 |-> x2, y2 |-> y2]>> \o rest.items,
                   errors |-> rest.errors]

\* draw_text_in_viewport_handler: what one redraw hands to blf.draw
draw_text_in_viewport_handler(sc, sp, pr, clock) ==
    IF ~poll(sc, sp) \/ ~pr.burn_in.enable \/ ~pr.burn_in.preview
    THEN [items |-> <<>>, errors |-> <<>>]
    ELSE LET res_x == sc.render.resolution_x
             metadata == get_metadata(sc, pr, clock, FALSE)
             \* factor = frame.width / res_x; int(props.font_size * factor)
             font_size == (pr.burn_in.font_size * sp.frame.width) \div res_x
             font_margin == (pr.burn_in.margin * sp.frame.width) \div res_x
         IN  DrawFrom(1, pr, metadata, sp.frame, font_size, font_margin)

-----------------------------------------------------------------------------
(* SpecLayout: one layout call on every drawn template set *)

TemplateChoices ==
    {<<>>,
     <<Lit(<<" ">>)>>,
     <<Lit(<<"A">>)>>,
     <<Fld("frame_current")>>,
     <<Fld("camera_name")>>,
     <<Fld("nonexistent")>>,
     <<Lit(<<"A", " ">>), Fld("nonexistent")>>}

InitLayout ==
    /\ Idle
    /\ \E base \in {DefaultTemplates, NoTemplates},
          p1 \in PositionSet, t1 \in TemplateChoices,
          p2 \in PositionSet, t2 \in TemplateChoices,
          cam \in Cameras, cur \in 1..MaxFrame :
          /\ scene = MakeScene(1920, 1080, cur, <<1, MaxFrame>>, FALSE,
                               <<1, MaxFrame>>, 1, cam)
          /\ props = MakeProps(50, FALSE, <<1, MaxFrame>>, DefaultFile,
                               [base EXCEPT ![p1] = t1, ![p2] = t2])

\* a consumer iterates iter_corner_text() to the end
CallIterCornerText ==
    /\ ~texts.called
    /\ LET r == iter_corner_text(scene, props, now)
       IN  texts' = [called |-> TRUE, by |-> "iter_corner_text", raised |-> r.raised,
                     items |-> r.items, errors |-> <<>>]
    /\ UNCHANGED <<scene, space, props, metadata_dict, frame_change_post, now, pc,
                   saved, self, oglrender, ffmpeg, ret, preview, timecodes>>

\* the viewport redraws and runs the POST_PIXEL draw handler
DrawTextInViewport ==
    /\ ~texts.called
    /\ LET r == draw_text_in_viewport_handler(scene, space, props, now)
       IN  texts' = [called |-> TRUE, by |-> "draw_text_in_viewport_handler",
                     raised |-> FALSE, items |-> r.items, errors |-> r.errors]
    /\ UNCHANGED <<scene, space, props, metadata_dict, frame_change_post, now, pc,
                   saved, self, oglrender, ffmpeg, ret, preview, timecodes>>

NextLayout == CallIterCornerText \/ DrawTextInViewport

SpecLayout == InitLayout /\ [][NextLayout]_vars

-----------------------------------------------------------------------------
(* Claims about the burn-in layout *)

IsUnknownField(tok) == tok.kind = "fld" /\ tok.s[1] \notin MetaDataFields

HasUnknownField(template) == \E i \in 1..Len(template) : IsUnknownField(template[i])

BadPositions == {p \in PositionSet : HasUnknownField(props.burn_in[p])}

WithoutUnknown(template) == SelectSeq(template, LAMBDA tok : ~IsUnknownField(tok))

ItemsAt(p) == {i \in 1..Len(texts.items) : texts.items[i].position = p}

GoodItems(items) == SelectSeq(items, LAMBDA it : it.position \notin BadPositions)

\* the add-on properties with the template of every bad position emptied
CleanProps ==
    [props EXCEPT !.burn_in =
        [k \in DOMAIN props.burn_in |->
            IF k \in BadPositions THEN <<>> ELSE props.burn_in[k]]]

\* the layout call produces something at all
LayoutActive ==
    \/ texts.by = "iter_corner_text"
    \/ poll(scene, space) /\ props.burn_in.enable /\ props.burn_in.preview

\* the other positions are produced exactly as without the bad templates
OthersUnchanged ==
    IF texts.by = "iter_corner_text"
    THEN GoodItems(texts.items) = GoodItems(iter_corner_text(scene, CleanProps, now).items)
    ELSE GoodItems(texts.items)
           = GoodItems(draw_text_in_viewport_handler(scene, space, CleanProps, now).items)

-----------------------------------------------------------------------------
(* playblast/operators.py: the two context managers and the collect handler *)

\* render_properties_override, lines 31-51: the values kept for the restore
store_properties(sc, sp) ==
    [entered |-> TRUE,
     resolution_x |-> sc.render.resolution_x,
     resolution_y |-> sc.render.resolution_y,
     resolution_percentage |-> sc.render.resolution_percentage,
     frame_current |-> sc.frame_current,
     use_preview_range |-> sc.use_preview_range,
     frame_preview_start |-> sc.frame_preview_start,
     frame_preview_end |-> sc.frame_preview_end,
     filepath |-> sc.render.filepath,
     use_file_extension |-> sc.render.use_file_extension,
     use_render_cache |-> sc.render.use_render_cache,
     file_format |-> sc.render.image_settings.file_format,
     color_mode |-> sc.render.image_settings.color_mode,
     color_depth |-> sc.render.image_settings.color_depth,
     compression |-> sc.render.image_settings.compression,
     shading_type |-> sp.shading_type,
     show_xray |-> sp.show_xray,
     show_overlays |-> sp.show_overlays]

\* render_properties_override, lines 53-68: the scene set up for the playblast
override_scene(sc, pr, metadata) ==
    LET r == [sc.render EXCEPT !.resolution_x = metadata.width,
                               !.resolution_y = metadata.height,
                               !.resolution_percentage = 100,
                               !.use_file_extension = TRUE,
                               !.use_render_cache = FALSE,
                               !.image_settings =
                                   [file_format |-> "PNG", color_mode |-> "RGB",
                                    color_depth |-> "8", compression |-> 15]]
    IN  IF pr.override.use_frame_range
        THEN [sc EXCEPT !.render = r,
                        !.use_preview_range = TRUE,
                        !.frame_preview_start = pr.override.frame_start,
                        !.frame_preview_end = pr.override.frame_end]
        ELSE [sc EXCEPT !.render = r]

\* render_properties_override, lines 70-77: the viewport set up for the playblast
override_space(sp, pr) ==
    [sp EXCEPT !.shading_type = IF pr.override.use_viewport_shading
                                THEN pr.override.viewport_shading ELSE @,
               !.show_xray = FALSE,
               !.show_overlays = pr.override.show_overlays,
               !.view_perspective = "CAMERA"]

SnapshotKeyNext(sc) == IntToStr(sc.frame_current + 1)

\* str(scene.frame_current), the key the handler stores a snapshot under
SnapshotKey(sc) == IntToStr(sc.frame_current)

HandlerNotRendering == FALSE

\* the handler calls get_metadata(bpy.context, is_rendering=True)
HandlerIsRendering == TRUE

\* register_collect_metadata_handler.handler
collect_handler(sc, pr, dict, clock) ==
    [dict EXCEPT !.items =
        (SnapshotKey(sc) :> get_metadata(sc, pr, clock, HandlerIsRendering)) @@ @]

\* the scene moves to frame f and Blender runs frame_change_post
frame_changed(sc, pr, dict, handlers, clock, f) ==
    LET moved == [sc EXCEPT !.frame_current = f]
    IN  [scene |-> moved,
         dict |-> IF "handler" \in handlers /\ dict.exists
                  THEN collect_handler(moved, pr, dict, clock) ELSE dict]

\* render_properties_override, lines 81-97: scene.frame_set(frame_current)
\* runs the frame_change_post handlers that are still registered
restore_scene(sc, pr, dict, handlers, clock, sv) ==
    LET r == [sc.render EXCEPT !.resolution_x = sv.resolution_x,
                               !.resolution_y = sv.resolution_y,
                               !.resolution_percentage = sv.resolution_percentage,
                               !.filepath = sv.filepath,
                               !.use_file_extension = sv.use_file_extension,
                               !.use_render_cache = sv.use_render_cache,
                               !.image_settings =
                                   [file_format |-> sv.file_format,
                                    color_mode |-> sv.color_mode,
                                    color_depth |-> sv.color_depth,
                                    compression |-> sv.compression]]
        set == frame_changed([sc EXCEPT !.render = r], pr, dict, handlers, clock,
                             sv.frame_current)
    IN  [scene |-> [set.scene EXCEPT !.use_preview_range = sv.use_preview_range,
                                     !.frame_preview_start = sv.frame_preview_start,
                                     !.frame_preview_end = sv.frame_preview_end],
         dict |-> set.dict]

\* the restore without the x-ray line
restore_space_keeps_xray(sp, sv) ==
    [sp EXCEPT !.shading_type = sv.shading_type,
               !.show_overlays = sv.show_overlays]

\* render_properties_override, lines 99-101
restore_space(sp, sv) ==
    [sp EXCEPT !.shading_type = sv.shading_type,
               !.show_xray = sv.show_xray,
               !.show_overlays = sv.show_overlays]

\* the exit deleting the dictionary and leaving the handler registered
collect_exit_keeps_handler(handlers, dict, exc) ==
    [handlers |-> handlers, dict |-> NoDict]

collect_exit_unless_raised(handlers, dict, exc) ==
    IF exc = "none"
    THEN [handlers |-> handlers \ {"handler"}, dict |-> NoDict]
    ELSE [handlers |-> handlers, dict |-> dict]

\* register_collect_metadata_handler, lines 120-122: the finally block runs
\* whether or not the body raised
collect_exit(handlers, dict, exc) ==
    [handlers |-> handlers \ {"handler"}, dict |-> NoDict]

pin_nothing(items, t) == items

\* execute, lines 162-164: every stored snapshot gets the same datetime
pin_datetime(items, t) ==
    [k \in DOMAIN items |-> [items[k] EXCEPT !.datetime = t]]

-----------------------------------------------------------------------------
(* playblast/operators.py: build_subtitles *)

ReportArgsOnError == 1      \* self.report(f'Error burn in text ...'): one argument
ReportArity == 2            \* Operator.report(type, message)

\* whether a call of Operator.report with n arguments is accepted; a call
\* with any other number of arguments raises TypeError
operator_report_accepts(n) == n = ReportArity

subtitle_header_unscaled(sc, pr) ==
    [res_x |-> sc.render.resolution_x,
     res_y |-> sc.render.resolution_y,
     font_size |-> pr.burn_in.font_size,
     margin |-> pr.burn_in.margin]

\* lines 240-264: resolution, font size and margin written to the track
subtitle_header(sc, pr) ==
    [res_x |-> sc.render.resolution_x,
     res_y |-> sc.render.resolution_y,
     font_size |-> (pr.burn_in.font_size * pr.override.scale) \div 100,
     margin |-> (pr.burn_in.margin * pr.override.scale) \div 100]

subtitle_var_unflipped(pos, header) ==
    LET res_x == header.res_x
        res_y == header.res_y
        margin == header.margin
    IN  CASE pos = "top_left" -> [align |-> "7", x |-> margin, y |-> res_y - margin]
          [] pos = "top_center" ->
                 [align |-> "8", x |-> res_x \div 2, y |-> res_y - margin]
          [] pos = "top_right" ->
                 [align |-> "9", x |-> res_x - margin, y |-> res_y - margin]
          [] pos = "bottom_left" -> [align |-> "1", x |-> margin, y |-> margin]
          [] pos = "bottom_center" -> [align |-> "2", x |-> res_x \div 2, y |-> margin]
          [] pos = "bottom_right" -> [align |-> "3", x |-> res_x - margin, y |-> margin]

\* lines 268-305: alignment code and anchor of each position
subtitle_var(pos, header) ==
    LET res_x == header.res_x
        res_y == header.res_y
        margin == header.margin
    IN  CASE pos = "top_left" -> [align |-> "7", x |-> margin, y |-> margin]
          [] pos = "top_center" -> [align |-> "8", x |-> res_x \div 2, y |-> margin]
          [] pos = "top_right" -> [align |-> "9", x |-> res_x - margin, y |-> margin]
          [] pos = "bottom_left" -> [align |-> "1", x |-> margin, y |-> res_y - margin]
          [] pos = "bottom_center" ->
                 [align |-> "2", x |-> res_x \div 2, y |-> res_y - margin]
          [] pos = "bottom_right" ->
                 [align |-> "3", x |-> res_x - margin, y |-> res_y - margin]

\* lines 314-330: the inner loop over the positions for one frame, from the
\* i-th position on; exc is the exception that leaves the loop, if any
RECURSIVE DialoguesFrom(_, _, _, _, _)
DialoguesFrom(i, frame, metadata, pr, header) ==
    IF i > Len(Positions)
    THEN [dialogues |-> <<>>, failed |-> {}, reports |-> <<>>, exc |-> "none"]
    ELSE LET pos == Positions[i]
             f == FormatMap(pr.burn_in[pos], metadata, StoredMapping)
             v == subtitle_var(pos, header)
             rest == DialoguesFrom(i + 1, frame, metadata, pr, header)
         IN  IF f.ok
             THEN [rest EXCEPT !.dialogues =
                      <<[frame |-> frame, position |-> pos, align |-> v.align,
                         x |-> v.x, y |-> v.y, text |-> f.text]>> \o @]
             ELSE IF operator_report_accepts(ReportArgsOnError)
                  THEN [rest EXCEPT !.failed = @ \cup {<<frame, pos>>},
                                    !.reports = <<pos>> \o @]
                  ELSE [dialogues |-> <<>>, failed |-> {<<frame, pos>>},
                        reports |-> <<>>, exc |-> "TypeError"]

-----------------------------------------------------------------------------
(* PLAYBLAST_OT_run.execute, one action per step *)

ExportTemplates ==
    {DefaultTemplates,
     [DefaultTemplates EXCEPT !.top_center = <<Lit(<<"A", " ">>), Fld("nonexistent")>>],
     [NoTemplates EXCEPT !.bottom_right = <<Fld("frame_current")>>]}

\* preview and override ranges of the exports: one frame or up to the last frame
ExportRanges == {r \in Ranges : r[1] <= 2 /\ r[2] \in {r[1], MaxFrame}}

\* base resolutions and font sizes of the one-frame exports that sweep the scale
SweepSizes == {<<1920, 1080>>, <<100, 100>>}
SweepFontSizes == {40, 89}

\* a detection that finds ffmpeg whether or not it is installed
detect_ffmpeg_always(found) == TRUE

\* utils.py lines 17-18: shutil.which("ffmpeg") is not None
detect_ffmpeg(found) == found

\* lines 133-135: PLAYBLAST_OT_run.poll
PLAYBLAST_OT_run_poll(sc, sp) ==
    /\ sp.area_type = "VIEW_3D"
    /\ sc.camera.type # "NONE"

\* what region_data.view_perspective can be when the operator is called
Perspectives == {"CAMERA", "PERSP", "ORTHO"}

Init ==
    /\ IdleButViewport
    /\ \/ \E range \in {<<1, MaxFrame>>, <<2, 2>>},
             cur \in {1, MaxFrame},
             step \in 1..MaxStep,
             use_prv \in BOOLEAN, prv \in ExportRanges,
             use_range \in BOOLEAN, ovr \in ExportRanges,
             scale \in {33, 100},
             templates \in ExportTemplates :
             /\ use_prv \/ prv = <<1, 1>>
             /\ use_range \/ ovr = <<1, 1>>
             /\ scene = MakeScene(1920, 1080, cur, range, use_prv, prv, step,
                                  [type |-> "CAMERA", name |-> <<"C", "a", "m">>,
                                   lens |-> 50])
             /\ props = MakeProps(scale, use_range, ovr, DefaultFile, templates)
             /\ space = DefaultSpace
       \/ \E res \in SweepSizes, font_size \in SweepFontSizes,
             scale \in ScaleMin..ScaleMax :
             /\ scene = MakeScene(res[1], res[2], 1, <<1, 1>>, FALSE, <<1, 1>>, 1,
                                  [type |-> "CAMERA", name |-> <<"C", "a", "m">>,
                                   lens |-> 50])
             /\ props = [MakeProps(scale, FALSE, <<1, 1>>, DefaultFile,
                                   [NoTemplates EXCEPT
                                      !.bottom_right = <<Fld("frame_current")>>])
                           EXCEPT !.burn_in.font_size = font_size]
             /\ space = DefaultSpace
       \/ \E perspective \in Perspectives, use_range \in BOOLEAN, cam \in Cameras :
             /\ scene = MakeScene(1920, 1080, 2, <<1, 2>>, FALSE, <<1, 1>>, 1, cam)
             /\ props = MakeProps(100, use_range, <<2, 2>>, DefaultFile,
                                  [NoTemplates EXCEPT
                                     !.bottom_right = <<Fld("frame_current")>>])
             /\ space = MakeSpace(perspective,
                                  [x |-> 10, y |-> 20, width |-> 192, height |-> 108])

\* the environment: ffmpeg is removed from PATH before the operator runs
UninstallFfmpeg ==
    /\ pc = "idle" /\ ffmpeg
    /\ ffmpeg' = FALSE
    /\ UNCHANGED <<scene, space, props, metadata_dict, frame_change_post, now, pc,
                   saved, self, oglrender, ret, texts, preview, timecodes>>

\* lines 139-144: ffmpeg is missing
ExecuteNoFfmpeg ==
    /\ pc = "idle" /\ ~detect_ffmpeg(ffmpeg)
    /\ PLAYBLAST_OT_run_poll(scene, space)
    /\ self' = [NoSelf EXCEPT !.result = "CANCELLED", !.reports = <<"ERROR">>,
                             !.invoked_view = space.view_perspective]
    /\ pc' = "done"
    /\ UNCHANGED <<scene, space, props, metadata_dict, frame_change_post, now,
                   saved, oglrender, ffmpeg, ret, texts, preview, timecodes>>

\* lines 146-148: TemporaryDirectory and the entry of render_properties_override
EnterOverride ==
    /\ pc = "idle" /\ detect_ffmpeg(ffmpeg)
    /\ PLAYBLAST_OT_run_poll(scene, space)
    /\ self' = [NoSelf EXCEPT !.result = "RUNNING", !.temp_dir = TRUE,
                             !.invoked_view = space.view_perspective]
    /\ saved' = store_properties(scene, space)
    /\ scene' = override_scene(scene, props, get_metadata(scene, props, now, FALSE))
    /\ space' = override_space(space, props)
    /\ pc' = "register_dict"
    /\ UNCHANGED <<props, metadata_dict, frame_change_post, now, oglrender, ffmpeg,
                   ret, texts, preview, timecodes>>

\* line 115: context.scene.playblast["metadata"] = {}
CreateDict ==
    /\ pc = "register_dict"
    /\ metadata_dict' = [exists |-> TRUE, items |-> <<>>]
    /\ pc' = "register_handler"
    /\ UNCHANGED <<scene, space, props, frame_change_post, now, saved, self,
                   oglrender, ffmpeg, ret, texts, preview, timecodes>>

\* line 116: bpy.app.handlers.frame_change_post.append(handler)
AppendHandler ==
    /\ pc = "register_handler"
    /\ frame_change_post' = frame_change_post \cup {"handler"}
    /\ pc' = "body"
    /\ UNCHANGED <<scene, space, props, metadata_dict, now, saved, self, oglrender,
                   ffmpeg, ret, texts, preview, timecodes>>

\* lines 151-159: the render starts at the first frame of the active range
StartRender ==
    /\ pc = "body"
    /\ scene' = [scene EXCEPT !.render.filepath = "tmp/"]
    /\ oglrender' = [running |-> TRUE,
                     nfra |-> IF scene.use_preview_range
                              THEN scene.frame_preview_start ELSE scene.frame_start,
                     efra |-> IF scene.use_preview_range
                              THEN scene.frame_preview_end ELSE scene.frame_end,
                     stamps |-> {}]
    /\ pc' = "render"
    /\ UNCHANGED <<space, props, metadata_dict, frame_change_post, now, saved, self,
                   ffmpeg, ret, texts, preview, timecodes>>

\* bpy.ops.render.opengl renders the next frame: the scene moves to it, the
\* frame_change_post handlers run, and the render steps by scene.frame_step
RenderFrame ==
    /\ pc = "render" /\ oglrender.nfra <= oglrender.efra
    /\ \E dt \in 0..1 :
          /\ now + dt <= MaxClock
          /\ now' = now + dt
          /\ LET c == frame_changed(scene, props, metadata_dict, frame_change_post,
                                    now + dt, oglrender.nfra)
             IN  /\ scene' = c.scene
                 /\ metadata_dict' = c.dict
          /\ oglrender' = [oglrender EXCEPT !.nfra = @ + scene.frame_step,
                                            !.stamps = @ \cup {now + dt}]
    /\ UNCHANGED <<space, props, frame_change_post, pc, saved, self, ffmpeg, ret, texts, preview, timecodes>>

\* the render passed the last frame of the range and returns
RenderFinish ==
    /\ pc = "render" /\ oglrender.nfra > oglrender.efra
    /\ oglrender' = [oglrender EXCEPT !.running = FALSE]
    /\ pc' = "pin"
    /\ UNCHANGED <<scene, space, props, metadata_dict, frame_change_post, now, saved,
                   self, ffmpeg, ret, texts, preview, timecodes>>

\* the render stops before the last frame and returns without raising
RenderCancel ==
    /\ pc = "render" /\ oglrender.nfra <= oglrender.efra
    /\ oglrender' = [oglrender EXCEPT !.running = FALSE]
    /\ pc' = "pin"
    /\ UNCHANGED <<scene, space, props, metadata_dict, frame_change_post, now, saved,
                   self, ffmpeg, ret, texts, preview, timecodes>>

\* bpy.ops.render.opengl raises RuntimeError
RenderRaise ==
    /\ pc = "render"
    /\ oglrender' = [oglrender EXCEPT !.running = FALSE]
    /\ self' = [self EXCEPT !.exc = "RuntimeError"]
    /\ pc' = "exit_collect"
    /\ UNCHANGED <<scene, space, props, metadata_dict, frame_change_post, now, saved,
                   ffmpeg, ret, texts, preview, timecodes>>

\* lines 161-172: pin the datetime, then take the real frame range
PinDatetime ==
    /\ pc = "pin"
    /\ \E dt \in 0..1 :
          /\ now + dt <= MaxClock
          /\ now' = now + dt
          /\ metadata_dict' = [metadata_dict EXCEPT
                                 !.items = pin_datetime(@, DateTimeStr(now + dt))]
    /\ self' = [self EXCEPT
                  !.frame_start = IF scene.use_preview_range
                                  THEN scene.frame_preview_start ELSE scene.frame_start,
                  !.frame_end = IF scene.use_preview_range
                                THEN scene.frame_preview_end ELSE scene.frame_end]
    /\ pc' = "build_subtitles"
    /\ UNCHANGED <<scene, space, props, frame_change_post, saved, oglrender, ffmpeg,
                   ret, texts, preview, timecodes>>

\* build_subtitles, lines 234-307: everything before the loop over the frames
SubtitlesBegin ==
    /\ pc = "build_subtitles"
    /\ self' = [self EXCEPT !.header = subtitle_header(scene, props),
                            !.frame = self.frame_start]
    /\ pc' = "subtitles"
    /\ UNCHANGED <<scene, space, props, metadata_dict, frame_change_post, now, saved,
                   oglrender, ffmpeg, ret, texts, preview, timecodes>>

\* build_subtitles, lines 309-330: one iteration of the loop over the frames
SubtitleFrame ==
    /\ pc = "subtitles" /\ self.frame <= self.frame_end
    /\ LET key == IntToStr(self.frame)
       IN  IF key \notin DOMAIN metadata_dict.items
           THEN /\ self' = [self EXCEPT !.exc = "KeyError"]
                /\ pc' = "exit_collect"
           ELSE LET metadata == metadata_dict.items[key]
                    r == DialoguesFrom(1, self.frame, metadata, props, self.header)
                IN  /\ self' = [self EXCEPT
                                  !.consumed = Append(@, metadata),
                                  !.dialogues = @ \o r.dialogues,
                                  !.failed = @ \cup r.failed,
                                  !.reports = @ \o r.reports,
                                  !.exc = r.exc,
                                  !.frame = @ + 1]
                    /\ pc' = IF r.exc = "none" THEN "subtitles" ELSE "exit_collect"
    /\ UNCHANGED <<scene, space, props, metadata_dict, frame_change_post, now, saved,
                   oglrender, ffmpeg, ret, texts, preview, timecodes>>

\* build_subtitles, lines 332-336: the subtitle file is written
SubtitlesWrite ==
    /\ pc = "subtitles" /\ self.frame > self.frame_end
    /\ self' = [self EXCEPT !.sub_written = TRUE]
    /\ pc' = "build_audio"
    /\ UNCHANGED <<scene, space, props, metadata_dict, frame_change_post, now, saved,
                   oglrender, ffmpeg, ret, texts, preview, timecodes>>

\* build_audio: returns, or bpy.ops.sound.mixdown raises
BuildAudio ==
    /\ pc = "build_audio"
    /\ \E raised \in BOOLEAN :
          /\ self' = [self EXCEPT !.audio_ran = TRUE,
                                  !.exc = IF raised THEN "RuntimeError" ELSE "none"]
          /\ pc' = IF raised THEN "exit_collect" ELSE "build_video"
    /\ UNCHANGED <<scene, space, props, metadata_dict, frame_change_post, now, saved,
                   oglrender, ffmpeg, ret, texts, preview, timecodes>>

\* build_video: ffmpeg succeeds and the video is played, ffmpeg fails
\* (CalledProcessError is caught and reported), or play_video raises
BuildVideo ==
    /\ pc = "build_video"
    /\ \E outcome \in {"played", "ffmpeg_failed", "play_raised"} :
          self' = [self EXCEPT
                     !.video_ran = TRUE,
                     !.reports = CASE outcome = "played" -> Append(@, "INFO")
                                   [] outcome = "ffmpeg_failed" -> Append(@, "ERROR")
                                   [] outcome = "play_raised" -> Append(@, "INFO"),
                     !.exc = IF outcome = "play_raised" THEN "RuntimeError" ELSE "none"]
    /\ pc' = "exit_collect"
    /\ UNCHANGED <<scene, space, props, metadata_dict, frame_change_post, now, saved,
                   oglrender, ffmpeg, ret, texts, preview, timecodes>>

\* register_collect_metadata_handler leaves its with-block
ExitCollect ==
    /\ pc = "exit_collect"
    /\ LET e == collect_exit(frame_change_post, metadata_dict, self.exc)
       IN  /\ frame_change_post' = e.handlers
           /\ metadata_dict' = e.dict
    /\ pc' = "exit_override"
    /\ UNCHANGED <<scene, space, props, now, saved, self, oglrender, ffmpeg, ret, texts, preview, timecodes>>

\* render_properties_override leaves its with-block, the temporary directory
\* is removed and execute returns FINISHED or the exception propagates
ExitOverride ==
    /\ pc = "exit_override"
    /\ LET r == restore_scene(scene, props, metadata_dict, frame_change_post, now, saved)
       IN  /\ scene' = r.scene
           /\ metadata_dict' = r.dict
    /\ space' = restore_space(space, saved)
    /\ self' = [self EXCEPT !.temp_dir = FALSE,
                            !.result = IF self.exc = "none" THEN "FINISHED" ELSE "RAISED"]
    /\ pc' = "done"
    /\ UNCHANGED <<props, frame_change_post, now, saved, oglrender, ffmpeg, ret, texts, preview, timecodes>>

Next ==
    \/ UninstallFfmpeg
    \/ ExecuteNoFfmpeg
    \/ EnterOverride
    \/ CreateDict
    \/ AppendHandler
    \/ StartRender
    \/ RenderFrame
    \/ RenderFinish
    \/ RenderCancel
    \/ RenderRaise
    \/ PinDatetime
    \/ SubtitlesBegin
    \/ SubtitleFrame
    \/ SubtitlesWrite
    \/ BuildAudio
    \/ BuildVideo
    \/ ExitCollect
    \/ ExitOverride

Spec == Init /\ [][Next]_vars

-----------------------------------------------------------------------------
(* Claims about the export *)

Snapshots == {metadata_dict.items[k] : k \in DOMAIN metadata_dict.items}

\* the override scale applied once to a base resolution, as an even number
ScaledOnce(res) ==
    LET t == (res * props.override.scale) \div 100
    IN  IF t % 2 = 0 THEN t ELSE t + 1

\* C3: every snapshot the frame-change handler collects during an export
\* reports the render resolution that render_properties_override installed,
\* which is the scaled even resolution computed once before the render:
\* the scale is applied exactly once.
C3_ScaleAppliedOnce ==
    metadata_dict.exists =>
        \A m \in Snapshots :
            /\ m.width = scene.render.resolution_x
            /\ m.height = scene.render.resolution_y
            /\ m.width = ScaledOnce(saved.resolution_x)
            /\ m.height = ScaledOnce(saved.resolution_y)

\* a snapshot collected at 33%: 634 wide, neither the base 1920 nor 33% of 634
C3_Witness ==
    /\ metadata_dict.exists
    /\ props.override.scale = 33
    /\ saved.resolution_x = 1920
    /\ \E m \in Snapshots : m.width = 634 /\ m.height = 356

FramesOfExport == self.frame_start..self.frame_end

DialoguesAt(f, p) ==
    {i \in 1..Len(self.dialogues) :
        self.dialogues[i].frame = f /\ self.dialogues[i].position = p}

ReportsOf(p) == {i \in 1..Len(self.reports) : self.reports[i] = p}

\* C6: when substituting a stored snapshot into one position's template
\* fails in build_subtitles, the failure stays with that position: a
\* diagnostic is reported, no dialogue line is emitted for that position and
\* frame, the remaining positions and frames are processed, the subtitle file
\* is written, and build_audio and build_video still run.
C6_FailureContained ==
    (pc = "done" /\ self.failed # {}) =>
        /\ \A fp \in self.failed :
              /\ ReportsOf(fp[2]) # {}
              /\ DialoguesAt(fp[1], fp[2]) = {}
        /\ \A f \in FramesOfExport, p \in PositionSet :
              <<f, p>> \notin self.failed => DialoguesAt(f, p) # {}
        /\ self.sub_written
        /\ self.audio_ran
        /\ self.exc = "none" => self.video_ran

\* C7: when an export has ended, in whatever way, the metadata dictionary
\* no longer exists and the collect handler is no longer registered.
C7_Released ==
    pc = "done" =>
        /\ ~metadata_dict.exists
        /\ "handler" \notin frame_change_post

\* an export that ended because the render raised after collecting a frame
C7_Witness ==
    /\ pc = "done"
    /\ self.result = "RAISED" /\ self.exc = "RuntimeError"
    /\ ~self.audio_ran
    /\ oglrender.stamps # {}

\* C8: while build_subtitles consumes the snapshots, every snapshot in the
\* dictionary, and every snapshot consumed so far, carries the same datetime.
C8_SameDatetime ==
    pc \in {"build_subtitles", "subtitles"} =>
        /\ \A m1 \in Snapshots, m2 \in Snapshots : m1.datetime = m2.datetime
        /\ \A i \in 1..Len(self.consumed) :
              \A m \in Snapshots : self.consumed[i].datetime = m.datetime

\* two snapshots collected at different seconds are being consumed
C8_Witness ==
    /\ pc = "subtitles"
    /\ Cardinality(DOMAIN metadata_dict.items) >= 2
    /\ Cardinality(oglrender.stamps) >= 2
    /\ Len(self.consumed) >= 2

\* C9: when build_subtitles runs, the dictionary holds a snapshot for every
\* frame of the range it iterates, however the render returned.
C9_AllFramesPresent ==
    pc = "subtitles" =>
        \A f \in FramesOfExport : IntToStr(f) \in DOMAIN metadata_dict.items

-----------------------------------------------------------------------------
(* playblast/render.py: placement of a measured text in a draw rect *)

\* the bottom-left corner at which the text is drawn
get_text_location(draw_rect, text_rect, margin, position) ==
    LET a == RectAnchor(draw_rect, position)
    IN  [x |-> CASE position \in {"top_left", "bottom_left"} -> a.x + margin
                 [] position \in {"top_center", "bottom_center"} ->
                        a.x - (text_rect.width \div 2)
                 [] position \in {"top_right", "bottom_right"} ->
                        a.x - text_rect.width - margin,
         y |-> IF position \in {"top_left", "top_center", "top_right"}
               THEN a.y - text_rect.height - margin
               ELSE a.y + margin]

-----------------------------------------------------------------------------
(* playblast/text.py: Rect.scale and Text.scale.  A factor is the fraction *)
(* k[1] / k[2]; the factors drawn are exact in binary floating point.      *)

\* int(value * factor): the product truncated towards zero
IntScaled(value, k) ==
    LET n == value * k[1]
    IN  IF n >= 0 THEN n \div k[2] ELSE -((-n) \div k[2])

Rect_scale(rect, k) ==
    [x |-> IntScaled(rect.x, k), y |-> IntScaled(rect.y, k),
     width |-> IntScaled(rect.width, k), height |-> IntScaled(rect.height, k)]

Text_scale(text, k) ==
    [text EXCEPT !.rect = Rect_scale(@, k), !.font_size = IntScaled(@, k)]

-----------------------------------------------------------------------------
(* SpecPlace: the six texts placed in frames of several sizes, then scaled *)

Letters(n) == [i \in 1..n |-> "A"]

Factors == {<<1, 2>>, <<3, 4>>, <<2, 1>>, <<4, 1>>}

FrameSizes == {<<1920, 1080>>, <<16, 9>>, <<7, 5>>}

DrawRects ==
    {[x |-> 0, y |-> 0, width |-> 1920, height |-> 1080],
     [x |-> 10, y |-> 20, width |-> 192, height |-> 108],
     [x |-> 3, y |-> 1, width |-> 7, height |-> 5]}

InitPlace ==
    /\ Idle
    /\ \E res \in FrameSizes, font_size \in {2, 3, 40}, margin \in {0, 1, 10},
          left \in {1, 3, 60}, center \in 1..3, right \in {1, 3} :
          /\ scene = MakeScene(res[1], res[2], 1, <<1, MaxFrame>>, FALSE,
                               <<1, MaxFrame>>, 1, NoCamera)
          /\ props =
               [MakeProps(100, FALSE, <<1, MaxFrame>>, DefaultFile, NoTemplates)
                  EXCEPT !.burn_in =
                    MakeBurnIn([top_left      |-> <<Lit(Letters(left))>>,
                                top_center    |-> <<Lit(Letters(center))>>,
                                top_right     |-> <<Lit(Letters(right))>>,
                                bottom_left   |-> <<Lit(Letters(left))>>,
                                bottom_center |-> <<Lit(Letters(center))>>,
                                bottom_right  |-> <<Lit(Letters(right))>>],
                               font_size, margin)]

\* a caller scales every Text that iter_corner_text yielded
ScaleTexts ==
    /\ texts.called /\ texts.by = "iter_corner_text"
    /\ \E k \in Factors :
          texts' = [called |-> TRUE, by |-> "Text.scale", raised |-> FALSE,
                    items |-> [i \in DOMAIN texts.items |->
                                  Text_scale(texts.items[i], k)],
                    errors |-> <<>>, factor |-> k, placed |-> texts.items]
    /\ UNCHANGED <<scene, space, props, metadata_dict, frame_change_post, now, pc,
                   saved, self, oglrender, ffmpeg, ret, preview, timecodes>>

\* _draw_burn_in_text measures one template and asks for its location
CallGetTextLocation ==
    /\ ~texts.called
    /\ \E draw_rect \in DrawRects, position \in PositionSet :
          LET dim == Dimensions(props.burn_in.font_size,
                                FormatMap(props.burn_in[position],
                                          get_metadata(scene, props, now, FALSE),
                                          ReturnedMapping).text)
              text_rect == [x |-> 0, y |-> 0, width |-> dim.width, height |-> dim.height]
              loc == get_text_location(draw_rect, text_rect, props.burn_in.margin,
                                       position)
          IN  texts' = [called |-> TRUE, by |-> "get_text_location", raised |-> FALSE,
                        items |-> <<[position |-> position, draw_rect |-> draw_rect,
                                     rect |-> [text_rect EXCEPT !.x = loc.x,
                                                                !.y = loc.y]]>>,
                        errors |-> <<>>]
    /\ UNCHANGED <<scene, space, props, metadata_dict, frame_change_post, now, pc,
                   saved, self, oglrender, ffmpeg, ret, preview, timecodes>>

NextPlace == CallIterCornerText \/ ScaleTexts \/ CallGetTextLocation

SpecPlace == InitPlace /\ [][NextPlace]_vars

-----------------------------------------------------------------------------
(* Claims about placement *)

RenderFrameRect ==
    [x |-> 0, y |-> 0, width |-> scene.render.resolution_x,
     height |-> scene.render.resolution_y]

\* the rect's corner of that position lies margin pixels inside the frame's
\* corner; a centre position has the horizontal anchor of the frame
InsetBy(rect, frame, margin, position) ==
    /\ IF position \in {"top_left", "top_center", "top_right"}
       THEN rect.y + rect.height = frame.y + frame.height - margin
       ELSE rect.y = frame.y + margin
    /\ CASE position \in {"top_left", "bottom_left"} -> rect.x = frame.x + margin
         [] position \in {"top_center", "bottom_center"} ->
                RectAnchor(rect, position).x = RectAnchor(frame, position).x
         [] position \in {"top_right", "bottom_right"} ->
                rect.x + rect.width = frame.x + frame.width - margin

\* C11: for each of the six positions, the rect placed by Text.__init__ in
\* the render frame, and the rect at the location get_text_location returns
\* for any draw rect, has its corner exactly margin pixels inside the matching
\* corner of the frame (top edge = frame top - margin, bottom edge = frame
\* bottom + margin, left edge = frame left + margin, right edge = frame right
\* - margin); a centre position is anchored on the frame's horizontal midpoint.
C11_CornerInset ==
    /\ (texts.called /\ texts.by = "iter_corner_text") =>
          \A i \in DOMAIN texts.items :
             InsetBy(texts.items[i].rect, RenderFrameRect, props.burn_in.margin,
                     texts.items[i].position)
    /\ (texts.called /\ texts.by = "get_text_location") =>
          \A i \in DOMAIN texts.items :
             InsetBy(texts.items[i].rect, texts.items[i].draw_rect,
                     props.burn_in.margin, texts.items[i].position)

\* a top_right text placed with a positive margin in a small frame
C11_Witness ==
    /\ texts.called /\ texts.by = "iter_corner_text"
    /\ props.burn_in.margin = 1 /\ scene.render.resolution_x = 7
    /\ \E i \in DOMAIN texts.items :
          /\ texts.items[i].position = "top_right"
          /\ texts.items[i].rect.width = 3
          /\ texts.items[i].rect.x = 3

Abs(n) == IF n < 0 THEN -n ELSE n

\* the rect Text.__init__ gives the same text in a frame, margin and
\* measured text size that were each scaled by k beforehand
PlacedPreScaled(text, k) ==
    TextRect(text.position,
             IntScaled(scene.render.resolution_x, k),
             IntScaled(scene.render.resolution_y, k),
             IntScaled(props.burn_in.margin, k),
             IntScaled(text.rect.width, k),
             IntScaled(text.rect.height, k))

WithinOnePixel(a, b) ==
    /\ Abs(a.x - b.x) <= 1
    /\ Abs(a.y - b.y) <= 1
    /\ Abs(a.width - b.width) <= 1
    /\ Abs(a.height - b.height) <= 1

\* C12: placement commutes with scaling: for every position, frame size,
\* margin, text size and factor k, the rect of a Text placed at full
\* resolution and then scaled by Text.scale(k) differs in x, y, width and
\* height by at most one pixel from the rect placed directly in the frame
\* scaled by k with the margin and the measured text size scaled by k.
C12_ScaleCommutes ==
    (texts.called /\ texts.by = "Text.scale") =>
        \A i \in DOMAIN texts.items :
           WithinOnePixel(texts.items[i].rect,
                          PlacedPreScaled(texts.placed[i], texts.factor))

-----------------------------------------------------------------------------
(* Claims about the subtitle track *)

AlignCode(position) ==
    CASE position = "top_left" -> "7"
      [] position = "top_center" -> "8"
      [] position = "top_right" -> "9"
      [] position = "bottom_left" -> "1"
      [] position = "bottom_center" -> "2"
      [] position = "bottom_right" -> "3"

\* the subtitle frame in Blender's bottom-left-origin coordinates
SubtitleFrameRect ==
    [x |-> 0, y |-> 0, width |-> self.header.res_x, height |-> self.header.res_y]

\* the ASS anchor (x, y) is the flipped anchor point of the rect
IsFlippedAnchor(d, rect) ==
    LET a == RectAnchor(rect, d.position)
    IN  /\ Abs(d.x - a.x) <= 1
        /\ Abs(d.y - (self.header.res_y - a.y)) <= 1

\* C13: every dialogue carries the alignment code of its position (7, 8, 9
\* for the top row, 1, 2, 3 for the bottom row), and its anchor equals,
\* after the flip y_ass = res_y - y_blender and within one pixel, the matching
\* anchor point of the rect that Text.__init__ and get_text_location place
\* for the same frame size and margin.
C13_SubtitleAnchors ==
    \A i \in DOMAIN self.dialogues :
       LET d == self.dialogues[i]
           dim == Dimensions(self.header.font_size, d.text)
           measured == [x |-> 0, y |-> 0, width |-> dim.width, height |-> dim.height]
           loc == get_text_location(SubtitleFrameRect, measured, self.header.margin,
                                    d.position)
       IN  /\ d.align = AlignCode(d.position)
           /\ IsFlippedAnchor(d, TextRect(d.position, self.header.res_x,
                                          self.header.res_y, self.header.margin,
                                          dim.width, dim.height))
           /\ IsFlippedAnchor(d, [measured EXCEPT !.x = loc.x, !.y = loc.y])

\* a bottom_right dialogue of a 634 x 356 track with margin 3
C13_Witness ==
    /\ self.header.res_x = 634 /\ self.header.res_y = 356 /\ self.header.margin = 3
    /\ \E i \in DOMAIN self.dialogues :
          /\ self.dialogues[i].position = "bottom_right"
          /\ self.dialogues[i].text # <<>>
          /\ self.dialogues[i].x = 631 /\ self.dialogues[i].y = 353

\* build_subtitles has computed the track's header inside the override
HeaderWritten == saved.entered /\ self.header # NoHeader

\* |written - configured * R_s / R| <= 1, for the base width R and the
\* track width R_s
WithinOneOfRatio(written, configured) ==
    Abs(written * saved.resolution_x - configured * self.header.res_x)
      <= saved.resolution_x

\* written = floor(configured * scale / 100)
IsFloorOfPercentage(written, configured) ==
    LET n == configured * props.override.scale
    IN  100 * written <= n /\ n < 100 * (written + 1)

\* |written - configured * R_s / R| < 2
WithinTwoOfRatio(written, configured) ==
    Abs(written * saved.resolution_x - configured * self.header.res_x)
      < 2 * saved.resolution_x

\* C14 as stated: with base resolution R, track resolution R_s (the scaled,
\* even-rounded width), margin m and font size f, the margin and font size
\* written to the subtitle track each differ by at most 1 from m * R_s / R and
\* f * R_s / R, for every scale in 1..100.
C14_Original ==
    HeaderWritten =>
        /\ WithinOneOfRatio(self.header.margin, props.burn_in.margin)
        /\ WithinOneOfRatio(self.header.font_size, props.burn_in.font_size)

\* C14 amended: the margin and font size written to the track are
\* floor(m * scale / 100) and floor(f * scale / 100); when m (or f) lies in
\* 0..R, the written value differs by less than 2 from m * R_s / R (f * R_s / R).
C14_PercentageFloor ==
    HeaderWritten =>
        /\ IsFloorOfPercentage(self.header.margin, props.burn_in.margin)
        /\ IsFloorOfPercentage(self.header.font_size, props.burn_in.font_size)
        /\ props.burn_in.margin \in 0..saved.resolution_x =>
              WithinTwoOfRatio(self.header.margin, props.burn_in.margin)
        /\ props.burn_in.font_size \in 0..saved.resolution_x =>
              WithinTwoOfRatio(self.header.font_size, props.burn_in.font_size)

\* 1920 wide at scale 91 with font size 89: the track is 1748 wide, font 80
C14_Witness ==
    /\ HeaderWritten
    /\ saved.resolution_x = 1920 /\ props.override.scale = 91
    /\ props.burn_in.font_size = 89
    /\ self.header.res_x = 1748 /\ self.header.font_size = 80

AllTemplatesNonEmpty == \A p \in PositionSet : ~TemplateIsBlank(props.burn_in[p])

\* two rects share a region of positive area
Overlap(a, b) ==
    /\ a.x < b.x + b.width /\ b.x < a.x + a.width
    /\ a.y < b.y + b.height /\ b.y < a.y + a.height

\* C15: when all six templates are non-empty, iter_corner_text yields exactly
\* six Text blocks, one per position, and no two of their rects overlap, for
\* every frame size, margin and measured text size.
C15_SixDisjointBlocks ==
    (texts.called /\ texts.by = "iter_corner_text" /\ AllTemplatesNonEmpty) =>
        /\ Len(texts.items) = 6
        /\ \A p \in PositionSet : Cardinality(ItemsAt(p)) = 1
        /\ \A i, j \in DOMAIN texts.items :
              i # j => ~Overlap(texts.items[i].rect, texts.items[j].rect)

-----------------------------------------------------------------------------
(* Claims about which positions the layout produces *)

\* the template is the empty string or consists of white space only
WhitespaceOnly(template) ==
    \A i \in 1..Len(template) :
       /\ template[i].kind = "lit"
       /\ \A j \in 1..Len(template[i].s) : template[i].s[j] = " "

PositionsYielded == [i \in DOMAIN texts.items |-> texts.items[i].position]

ResolvedText(p) ==
    FormatMap(props.burn_in[p], get_metadata(scene, props, now, FALSE),
              ReturnedMapping).text

\* C17: a position is skipped when its text after the metadata substitution
\* is empty or all white space: with no active camera the template
\* "{camera_name}" resolves to the empty string and no text block is produced
\* (iter_corner_text) or drawn (viewport handler) for that position.
C17_ResolvedBlankSkipped ==
    texts.called =>
        \A p \in PositionSet : IsBlank(ResolvedText(p)) => ItemsAt(p) = {}

-----------------------------------------------------------------------------
(* Claims about the dialogue lines *)

NonEmptyPositions == {p \in PositionSet : props.burn_in[p] # <<>>}

\* C18: build_subtitles emits, for every frame of the exported range, exactly
\* one dialogue line per position whose text is non-empty and none for a
\* position whose template is empty; the total number of dialogue lines is
\* (frame_end - frame_start + 1) times the number of non-empty positions.
C18_OneLinePerNonEmptyPosition ==
    self.sub_written =>
        /\ \A f \in FramesOfExport, p \in PositionSet :
              Cardinality(DialoguesAt(f, p)) = (IF p \in NonEmptyPositions THEN 1 ELSE 0)
        /\ Len(self.dialogues)
             = (self.frame_end - self.frame_start + 1) * Cardinality(NonEmptyPositions)

-----------------------------------------------------------------------------
(* Claims about the fields get_metadata returns *)

\* C19: get_metadata returns a mapping with all thirteen fields for every
\* scene state, including no active camera, an active object that is not a
\* camera and versioning disabled; a field whose value is unavailable is the
\* empty string.
C19_AllFieldsPresent ==
    ret.called =>
        /\ DOMAIN ret.value = MetaDataFields
        /\ Cardinality(DOMAIN ret.value) = 13
        /\ scene.camera.type # "CAMERA" =>
              ret.value.camera_name = <<>> /\ ret.value.camera_focal = <<>>
        /\ ~props.file.use_version => ret.value.file_version = <<>>
        /\ props.file.use_version => ret.value.file_version # <<>>

\* no active camera and versioning disabled
C19_Witness ==
    /\ ret.called
    /\ scene.camera = NoCamera /\ ~props.file.use_version
    /\ ret.value.file_version = <<>> /\ ret.value.camera_focal = <<>>
    /\ ret.value.file_full_name = <<"p", "b", ".", "m", "p", "4">>

\* C20: camera_name and camera_focal are both the empty string whenever the
\* scene has no active camera or the active object's type is not CAMERA, and
\* they are the object's name and its focal length exactly when the active
\* object is of type CAMERA.
C20_CameraFields ==
    ret.called =>
        IF scene.camera.type = "CAMERA"
        THEN /\ ret.value.camera_name = scene.camera.name
             /\ ret.value.camera_focal = FocalStr(scene.camera.lens)
             /\ ret.value.camera_focal # <<>>
        ELSE /\ ret.value.camera_name = <<>>
             /\ ret.value.camera_focal = <<>>

\* the active object is a mesh: both fields are empty although it has a name
C20_Witness ==
    /\ ret.called
    /\ scene.camera.type = "MESH" /\ scene.camera.name # <<>>
    /\ ret.value.camera_name = <<>> /\ ret.value.camera_focal = <<>>

-----------------------------------------------------------------------------
(* anim_reviewer: the preview draw handler and the module variable that    *)
(* tracks it.  preview.draw_handlers counts the preview_burn_in_handler    *)
(* entries that SpaceView3D holds, preview.preview_handler is the module   *)
(* variable ("None" or the handle of the last draw_handler_add).           *)

MaxCalls == 4       \* calls made in one run of SpecPreviewCalls
MaxTimers == 2      \* startup timers pending at once

PreviewModes == {"register", "unregister", "auto"}

\* handlers.py lines 185-190: the mode decides; "auto" reads the add-on
\* properties of the context scene, an AttributeError once
\* bpy.types.Scene.anim_reviewer is deleted
preview_register_flag(mode, pv) ==
    CASE mode = "register" -> "True"
      [] mode = "unregister" -> "False"
      [] OTHER -> IF ~pv.has_anim_reviewer THEN "AttributeError"
                  ELSE IF pv.enable /\ pv.preview THEN "True" ELSE "False"

\* the same function without the two guards on preview_handler
register_or_unregister_preview_handler_unguarded(mode, by, pv) ==
    LET register == preview_register_flag(mode, pv)
        called == [pv EXCEPT !.last = [by |-> by, mode |-> mode, raised |-> "none",
                                       handlers_before |-> pv.draw_handlers]]
    IN  CASE register = "AttributeError" ->
               [called EXCEPT !.last.raised = "AttributeError"]
          [] register = "True" ->
               [called EXCEPT !.draw_handlers = @ + 1, !.preview_handler = "handle"]
          [] OTHER ->
               [called EXCEPT !.draw_handlers = IF @ > 0 THEN @ - 1 ELSE 0,
                              !.preview_handler = "None"]

\* handlers.py lines 175-205
register_or_unregister_preview_handler(mode, by, pv) ==
    LET register == preview_register_flag(mode, pv)
        called == [pv EXCEPT !.last = [by |-> by, mode |-> mode, raised |-> "none",
                                       handlers_before |-> pv.draw_handlers]]
    IN  CASE register = "AttributeError" ->
               [called EXCEPT !.last.raised = "AttributeError"]
          [] register = "True" /\ pv.preview_handler = "None" ->
               [called EXCEPT !.draw_handlers = @ + 1, !.preview_handler = "handle"]
          [] register = "False" /\ pv.preview_handler # "None" ->
               [called EXCEPT !.draw_handlers = @ - 1, !.preview_handler = "None"]
          [] OTHER -> called

\* registers whenever the enable switch is on, whatever the preview switch
burn_in_preview_update_enable_only(pv) ==
    IF pv.enable
    THEN register_or_unregister_preview_handler("register", "burn_in_preview_update", pv)
    ELSE register_or_unregister_preview_handler("unregister", "burn_in_preview_update", pv)

\* properties.py lines 182-186: the update callback of burn_in.enable and
\* burn_in.preview, run after the property took its new value
burn_in_preview_update(pv) ==
    IF pv.enable /\ pv.preview
    THEN register_or_unregister_preview_handler("register", "burn_in_preview_update", pv)
    ELSE register_or_unregister_preview_handler("unregister", "burn_in_preview_update", pv)

PreviewScene == MakeScene(1920, 1080, 1, <<1, MaxFrame>>, FALSE, <<1, MaxFrame>>, 1, NoCamera)
PreviewProps == MakeProps(100, FALSE, <<1, MaxFrame>>, DefaultFile, NoTemplates)

\* the add-on is enabled, no handler is registered yet; the two switches
\* hold what the file stores
InitPreviewCalls ==
    /\ scene = PreviewScene
    /\ props = PreviewProps
    /\ space = DefaultSpace
    /\ metadata_dict = NoDict
    /\ frame_change_post = {}
    /\ now = 0
    /\ pc = "idle"
    /\ saved = NoSaved
    /\ self = NoSelf
    /\ oglrender = NoRender
    /\ ffmpeg = TRUE
    /\ ret = NoRet
    /\ texts = NoTexts
    /\ timecodes = NoTimecodes
    /\ \E enable \in BOOLEAN, prv \in BOOLEAN, has \in BOOLEAN :
          preview = [NoPreview EXCEPT !.enable = enable, !.preview = prv,
                                      !.has_anim_reviewer = has]

\* a call of register_or_unregister_preview_handler(mode)
CallPreviewHandler(mode) ==
    /\ preview.calls < MaxCalls
    /\ preview' = [register_or_unregister_preview_handler(mode, "call", preview)
                     EXCEPT !.calls = @ + 1]
    /\ UNCHANGED <<scene, space, props, metadata_dict, frame_change_post, now, pc,
                   saved, self, oglrender, ffmpeg, ret, texts, timecodes>>

\* the user sets burn_in.enable or burn_in.preview; Blender stores the value
\* and runs the update callback
SetBurnInSwitch(name, value) ==
    /\ preview.has_anim_reviewer
    /\ preview.calls < MaxCalls
    /\ preview' = [burn_in_preview_update([preview EXCEPT ![name] = value])
                     EXCEPT !.calls = @ + 1]
    /\ UNCHANGED <<scene, space, props, metadata_dict, frame_change_post, now, pc,
                   saved, self, oglrender, ffmpeg, ret, texts, timecodes>>

NextPreviewCalls ==
    \/ \E mode \in PreviewModes : CallPreviewHandler(mode)
    \/ \E name \in {"enable", "preview"}, value \in BOOLEAN : SetBurnInSwitch(name, value)

SpecPreviewCalls == InitPreviewCalls /\ [][NextPreviewCalls]_vars

\* C21: after any sequence of calls with the modes register, unregister and
\* auto, SpaceView3D holds at most one preview draw handler, preview_handler
\* is set exactly when one is held, a register call made while one is held
\* adds nothing and an unregister call made while none is held removes
\* nothing.
C21_IdempotentStartStop ==
    /\ preview.draw_handlers \in {0, 1}
    /\ (preview.preview_handler # "None") <=> (preview.draw_handlers = 1)
    /\ (preview.last.mode = "register" /\ preview.last.handlers_before = 1)
          => preview.draw_handlers = 1
    /\ (preview.last.mode = "unregister" /\ preview.last.handlers_before = 0)
          => preview.draw_handlers = 0

\* a register call was made while the handler was already registered
C21_Witness ==
    /\ preview.last.by = "call"
    /\ preview.last.mode = "register"
    /\ preview.last.handlers_before = 1
    /\ preview.calls >= 2

\* C23: after every burn_in_preview_update callback the preview draw handler
\* is registered exactly when burn_in.enable and burn_in.preview are both
\* true for the updated property group.
C23_HandlerFollowsSwitches ==
    preview.last.by = "burn_in_preview_update"
        => ((preview.draw_handlers = 1 /\ preview.preview_handler # "None")
               <=> (preview.enable /\ preview.preview))

\* the callback ran with the enable switch on and the preview switch off
\* while a handler was registered
C23_Witness ==
    /\ preview.last.by = "burn_in_preview_update"
    /\ preview.last.handlers_before = 1
    /\ preview.enable /\ ~preview.preview
    /\ preview.draw_handlers = 0

-----------------------------------------------------------------------------
(* anim_reviewer: enabling and disabling the add-on, the startup timer and *)
(* the load_post handler.  Timers and application handlers run from        *)
(* Blender's main loop, between two script calls, never inside one.        *)

\* handlers.py lines 216-222: the load_post handler is appended and the
\* startup timer is registered
handlers_register(pv) ==
    [pv EXCEPT !.load_post = @ + 1, !.timers = @ + 1]

\* the same function deciding by the switches instead of always removing
handlers_unregister_auto(pv) ==
    register_or_unregister_preview_handler("auto", "unregister",
                                           [pv EXCEPT !.load_post = @ - 1])

\* handlers.py lines 225-227: the load_post handler is removed and the preview
\* handler is unregistered; the startup timer is left alone
handlers_unregister(pv) ==
    register_or_unregister_preview_handler("unregister", "unregister",
                                           [pv EXCEPT !.load_post = @ - 1])

\* anim_reviewer/properties.py lines 287-293
properties_register(pv) == [pv EXCEPT !.has_anim_reviewer = TRUE]

\* anim_reviewer/properties.py lines 296-300: del bpy.types.Scene.anim_reviewer
properties_unregister(pv) == [pv EXCEPT !.has_anim_reviewer = FALSE]

InitPreview == InitPreviewCalls /\ ~preview.has_anim_reviewer

\* the add-on is enabled: its register() calls the register() of its modules
EnableAddon ==
    /\ preview.load_post = 0
    /\ preview.timers < MaxTimers
    /\ preview' = handlers_register(properties_register(preview))
    /\ UNCHANGED <<scene, space, props, metadata_dict, frame_change_post, now, pc,
                   saved, self, oglrender, ffmpeg, ret, texts, timecodes>>

\* the add-on is disabled: its unregister() calls the unregister() of its
\* modules, in one order or the other, in one script call
DisableAddon ==
    /\ preview.load_post > 0
    /\ \/ preview' = properties_unregister(handlers_unregister(preview))
       \/ preview' = handlers_unregister(properties_unregister(preview))
    /\ UNCHANGED <<scene, space, props, metadata_dict, frame_change_post, now, pc,
                   saved, self, oglrender, ffmpeg, ret, texts, timecodes>>

\* handlers.py lines 219-222: 0.1 s after register() the main loop runs the
\* timer once, whether or not the add-on is still enabled
StartupTimerFires ==
    /\ preview.timers > 0
    /\ preview' = register_or_unregister_preview_handler(
                      "auto", "timer", [preview EXCEPT !.timers = @ - 1])
    /\ UNCHANGED <<scene, space, props, metadata_dict, frame_change_post, now, pc,
                   saved, self, oglrender, ffmpeg, ret, texts, timecodes>>

\* handlers.py lines 208-213: a file is loaded while the add-on is enabled;
\* the switches take the values the file stores and load_post_handler runs
LoadPost ==
    /\ preview.load_post > 0
    /\ \E enable \in BOOLEAN, prv \in BOOLEAN :
          preview' = register_or_unregister_preview_handler(
                         "auto", "load_post_handler",
                         [preview EXCEPT !.enable = enable, !.preview = prv])
    /\ UNCHANGED <<scene, space, props, metadata_dict, frame_change_post, now, pc,
                   saved, self, oglrender, ffmpeg, ret, texts, timecodes>>

NextPreview ==
    \/ EnableAddon
    \/ DisableAddon
    \/ StartupTimerFires
    \/ LoadPost
    \/ \E name \in {"enable", "preview"}, value \in BOOLEAN : SetBurnInSwitch(name, value)

SpecPreview == InitPreview /\ [][NextPreview]_vars

-----------------------------------------------------------------------------
\* C22: a get_metadata call, with is_rendering true or false, leaves the
\* scene (frame, ranges, render settings, camera) and the add-on properties
\* as they were, and touches nothing else of the program's state but its
\* return value.
C22_GetMetadataReadsOnly ==
    [][ret'.called =>
          /\ scene' = scene
          /\ props' = props
          /\ space' = space
          /\ metadata_dict' = metadata_dict
          /\ frame_change_post' = frame_change_post]_vars

\* a call outside a render returned a size that differs from the stored one
C22_Witness ==
    /\ ret.called /\ ~ret.is_rendering
    /\ props.override.scale # 100
    /\ ret.value.width # scene.render.resolution_x
    /\ scene.camera.type = "CAMERA"

-----------------------------------------------------------------------------
(* operators.py: frame_to_timecode and the start and end of each frame's   *)
(* dialogue lines.  frame / fps is kept exact as a fraction over fps; the  *)
(* frame rates are those for which no value lies halfway between two       *)
(* centiseconds, so that the rounding of "{:06.2f}" does not depend on the *)
(* binary representation of the float.                                     *)

MaxRun == 4         \* frames built in one run of SpecTimecode

FpsValues == {1, 2, 3, 25, 30, 60, 250}

\* f"{seconds:06.2f}" for a value of cs hundredths, negative or not: two
\* decimals, zero padded to six characters, the sign and the point counted
FormatSeconds(negative, cs) ==
    LET digits == IntToStr(cs \div 100) \o <<".">> \o ZeroPad(IntToStr(cs % 100), 2)
    IN  IF negative
        THEN <<"-">> \o ZeroPad(digits, 5)
        ELSE ZeroPad(digits, 6)

\* lines 199-210
frame_to_timecode(frame, fps) ==
    LET hours == frame \div (3600 * fps)
        minutes == (frame % (3600 * fps)) \div (60 * fps)
        rem == frame % (60 * fps)                   \* seconds * fps
        num == IF frame # 0 THEN 100 * rem - fps    \* (seconds - 0.01) * 100 * fps
               ELSE 100 * rem
        negative == num < 0
        mag == IF negative THEN 0 - num ELSE num
        cs == (2 * mag + fps) \div (2 * fps)        \* rounded to hundredths
    IN  [hours |-> hours, minutes |-> minutes, negative |-> negative, cs |-> cs,
         seconds_text |-> FormatSeconds(negative, cs),
         text |-> IntToStr(hours) \o <<":">> \o ZeroPad(IntToStr(minutes), 2)
                    \o <<":">> \o FormatSeconds(negative, cs)]

\* offsets at which the loop over the frames is looked at: the first frames,
\* the frames around one minute, one hour and two hours
TimecodeWindows(fps) == {0, 60 * fps - 2, 3600 * fps - 2, 7200 * fps - 2}

InitTimecode ==
    /\ scene = PreviewScene
    /\ props = PreviewProps
    /\ space = DefaultSpace
    /\ metadata_dict = NoDict
    /\ frame_change_post = {}
    /\ now = 0
    /\ pc = "idle"
    /\ saved = NoSaved
    /\ self = NoSelf
    /\ oglrender = NoRender
    /\ ffmpeg = TRUE
    /\ ret = NoRet
    /\ texts = NoTexts
    /\ preview = NoPreview
    /\ \E fps \in FpsValues :
          \E first \in TimecodeWindows(fps) :
             timecodes = [called |-> FALSE, fps |-> fps, next |-> first, run |-> 0]

\* lines 309-312: one turn of the loop over the frames; offset is
\* frame - self.frame_start
SubtitleTimecodes ==
    /\ timecodes.run < MaxRun
    /\ LET offset == timecodes.next
           fps == timecodes.fps
       IN  timecodes' =
             [called |-> TRUE, fps |-> fps, next |-> offset + 1,
              run |-> timecodes.run + 1, offset |-> offset,
              start |-> frame_to_timecode(offset, fps),
              end |-> frame_to_timecode(offset + 1, fps),
              has_prev |-> timecodes.called,
              prev_end |-> IF timecodes.called THEN timecodes.end
                           ELSE frame_to_timecode(0, fps)]
    /\ UNCHANGED <<scene, space, props, metadata_dict, frame_change_post, now, pc,
                   saved, self, oglrender, ffmpeg, ret, texts, preview>>

NextTimecode == SubtitleTimecodes

SpecTimecode == InitTimecode /\ [][NextTimecode]_vars

\* the time a timecode stands for, in hundredths of a second
TimecodeValue(tc) ==
    360000 * tc.hours + 6000 * tc.minutes + (IF tc.negative THEN 0 - tc.cs ELSE tc.cs)

IsDigitChar(c) == c \in {"0", "1", "2", "3", "4", "5", "6", "7", "8", "9"}

\* SS.cs: two digits, a point, two digits, below 60 seconds
ValidSecondsField(tc) ==
    /\ ~tc.negative
    /\ Len(tc.seconds_text) = 5
    /\ \A i \in {1, 2, 4, 5} : IsDigitChar(tc.seconds_text[i])
    /\ tc.seconds_text[3] = "."
    /\ tc.cs < 6000

ValidTimecode(tc) ==
    /\ tc.hours >= 0
    /\ tc.minutes \in 0..59
    /\ ValidSecondsField(tc)

\* C25: the first frame starts at 0:00:00.00, the end of each frame is the
\* start of the next one, and no frame starts after it ends.
C25_ContiguousIntervals ==
    timecodes.called =>
        /\ timecodes.offset = 0 =>
              timecodes.start.text =
                  <<"0", ":", "0", "0", ":", "0", "0", ".", "0", "0">>
        /\ timecodes.has_prev => timecodes.start = timecodes.prev_end
        /\ TimecodeValue(timecodes.start) <= TimecodeValue(timecodes.end)

\* C26: frame_to_timecode returns a valid H:MM:SS.cs timecode for every
\* frame offset and frame rate, with seconds in [0, 60) and minutes in
\* 0..59, also at whole minutes, and the timecode does not decrease from
\* one offset to the next.
C26_ValidTimecodes ==
    timecodes.called =>
        /\ ValidTimecode(timecodes.start)
        /\ ValidTimecode(timecodes.end)
        /\ TimecodeValue(timecodes.start) <= TimecodeValue(timecodes.end)

-----------------------------------------------------------------------------
\* C27: once the body of render_properties_override was entered, every
\* property the context manager saved (resolution x, y and percentage,
\* current frame, preview-range settings, filepath, file-extension and
\* render-cache flags, image format, colour mode, depth and compression,
\* viewport shading type, x-ray and overlay flags) has the value it had
\* before the export when the export has ended, whether the body completed
\* or raised.
C27_SavedPropertiesRestored ==
    (pc = "done" /\ saved.entered) =>
        /\ scene.render.resolution_x = saved.resolution_x
        /\ scene.render.resolution_y = saved.resolution_y
        /\ scene.render.resolution_percentage = saved.resolution_percentage
        /\ scene.frame_current = saved.frame_current
        /\ scene.use_preview_range = saved.use_preview_range
        /\ scene.frame_preview_start = saved.frame_preview_start
        /\ scene.frame_preview_end = saved.frame_preview_end
        /\ scene.render.filepath = saved.filepath
        /\ scene.render.use_file_extension = saved.use_file_extension
        /\ scene.render.use_render_cache = saved.use_render_cache
        /\ scene.render.image_settings.file_format = saved.file_format
        /\ scene.render.image_settings.color_mode = saved.color_mode
        /\ scene.render.image_settings.color_depth = saved.color_depth
        /\ scene.render.image_settings.compression = saved.compression
        /\ space.shading_type = saved.shading_type
        /\ space.show_xray = saved.show_xray
        /\ space.show_overlays = saved.show_overlays

\* an export that overrode the size, the preview range and the viewport and
\* whose body raised has ended
C27_Witness ==
    /\ pc = "done" /\ saved.entered
    /\ self.exc # "none"
    /\ props.override.scale = 33
    /\ props.override.use_frame_range /\ ~saved.use_preview_range
    /\ saved.frame_current # props.override.frame_end
    /\ saved.show_xray /\ saved.file_format = "OPEN_EXR"

\* C28: when the export has ended, region.view_perspective has the value it
\* had when the operator was called, for every perspective the operator's
\* poll lets it be called in.
C28_ViewPerspectiveUnchanged ==
    pc = "done" => space.view_perspective = self.invoked_view

\* C29: whenever the collect handler is registered in frame_change_post the
\* metadata dictionary exists, and the restore of the render properties,
\* whose scene.frame_set(frame_current) runs the registered handlers, starts
\* only when the handler has been removed.
C29_HandlerHasDictionary ==
    /\ "handler" \in frame_change_post => metadata_dict.exists
    /\ pc = "exit_override" => "handler" \notin frame_change_post

\* the restore is about to move the scene back to its frame after the body
\* raised
C29_Witness ==
    /\ pc = "exit_override"
    /\ self.exc # "none"
    /\ scene.frame_current # saved.frame_current
    /\ "handler" \notin frame_change_post /\ ~metadata_dict.exists

\* C30: when ffmpeg is not found execute reports an error and returns
\* CANCELLED, and nothing else happened: no property is overridden, no
\* temporary directory, metadata dictionary or handler is created, and no
\* render, subtitle, audio or video step runs.
C30_CancelledWithoutEffect ==
    [][(pc = "idle" /\ ~ffmpeg /\ pc' # "idle") =>
          /\ pc' = "done"
          /\ self'.result = "CANCELLED"
          /\ self'.reports = <<"ERROR">>
          /\ scene' = scene /\ space' = space /\ props' = props
          /\ saved' = saved /\ ~saved'.entered
          /\ ~self'.temp_dir
          /\ metadata_dict' = metadata_dict /\ ~metadata_dict'.exists
          /\ frame_change_post' = frame_change_post
          /\ oglrender' = oglrender /\ ~oglrender'.running
          /\ ~self'.sub_written /\ ~self'.audio_ran /\ ~self'.video_ran]_vars

\* execute has returned CANCELLED
C30_Witness ==
    /\ pc = "done" /\ ~ffmpeg
    /\ self.result = "CANCELLED"
    /\ space.view_perspective = "PERSP"

====
